---- MODULE Spec2Model ----
(***************************************************************************)
(* jsonvalidate.py: validation of decoded JSON data against a schema       *)
(* (is_valid, validate_json) and generation of data from a schema          *)
(* (generate).  The functions are pure; the state machine applies them to  *)
(* inputs drawn from bounded sets and records the outcome.                 *)
(***************************************************************************)
EXTENDS Integers, Sequences, FiniteSets, TLC

VARIABLES op, data, text, schema, result, invoked

vars == <<op, data, text, schema, result, invoked>>

(***************************************************************************)
(* Bounds of the model.                                                    *)
(***************************************************************************)
\* longest list in the data universe
MaxLen == 2
\* largest repetition count the random source hands to generate_list
MaxDraw == 2
\* longest JSON text, in tokens
MaxTokens == 3

(***************************************************************************)
(* Data values: what json.loads returns.  k is the name of type(data).     *)
(* A str is the sequence of its characters; a float f stands for f.0; a    *)
(* dict is the sequence of its (key, value) items in iteration order.      *)
(***************************************************************************)
DNone == [k |-> "NoneType"]
DBool(b) == [k |-> "bool", b |-> b]
DInt(i) == [k |-> "int", i |-> i]
DFloat(f) == [k |-> "float", f |-> f]
DStr(s) == [k |-> "str", s |-> s]
DList(items) == [k |-> "list", items |-> items]
DDict(items) == [k |-> "dict", items |-> items]

\* data.keys() of a dict
DictKeys(d) == {d.items[i][1] : i \in 1..Len(d.items)}
\* data[key] of a dict that has the key
DictGet(d, key) == d.items[CHOOSE i \in 1..Len(d.items) : d.items[i][1] = key][2]

(***************************************************************************)
(* Schema values.  v names the class of the schema object.                 *)
(***************************************************************************)
\* a class used as schema: int, float, bool, str, NoneType, dict, list, set
Type(t) == [v |-> "type", t |-> t]
\* an instance of Any
AnySchema == [v |-> "Any"]
\* the value None used as a schema: no rule of is_valid is registered for it
NoneSchema == [v |-> "None"]
Optional(value) == [v |-> "Optional", value |-> value]
Repeat(s, minimum, maximum) ==
    [v |-> "Repeat", schema |-> s, minimum |-> minimum, maximum |-> maximum, inf |-> FALSE]
\* maximum is float('inf'): no length exceeds it
ZeroOrMore(s) ==
    [v |-> "Repeat", schema |-> s, minimum |-> 0, maximum |-> 0, inf |-> TRUE]
OneOfThese(posibilities) == [v |-> "OneOfThese", posibilities |-> posibilities]
\* a set used as schema; members is the order in which the set iterates
SetSchema(members) == [v |-> "set", members |-> members]
ListSchema(items) == [v |-> "list", items |-> items]
TupleSchema(items) == [v |-> "tuple", items |-> items]
\* a dict used as schema; fields is the order of schema.items(), each field
\* a key name, whether the key is wrapped in Optional, and the sub schema
DictSchema(fields) == [v |-> "dict", fields |-> fields]
Field(key, optional, s) == [key |-> key, optional |-> optional, schema |-> s]

(***************************************************************************)
(* Outcomes of a call: a returned value or a raised exception.             *)
(***************************************************************************)
PyTrue == [o |-> "True"]
PyFalse == [o |-> "False"]
Error(erro) == [o |-> "Error", erro |-> erro]
Raise(exc) == [o |-> "raise", exc |-> exc]

Raised(r) == r.o = "raise"
\* bool(r) of a returned value: Error.__nonzero__ is always False
Truthy(r) == r.o = "True"
\* not r
PyNot(r) == IF Truthy(r) THEN PyFalse ELSE PyTrue

(***************************************************************************)
(* is_valid: the multifunction and the rules registered for it.            *)
(***************************************************************************)
RECURSIVE is_valid(_, _)
RECURSIVE list_loop(_, _, _)
RECURSIVE tuple_loop(_, _, _)
RECURSIVE dict_loop(_, _, _)
RECURSIVE oneofthese_loop(_, _, _)
RECURSIVE all_loop(_, _, _)

\* validate_type with isinstance(data, schema) in place of the test on
\* type(data): a bool is an instance of int
validate_type_isinstance(d, s) ==
    IF s.t \in {"dict", "set", "list"}
    THEN Error("invalid schema: type has no meaning, use a instance of this type")
    ELSE IF d.k # s.t /\ ~(d.k = "bool" /\ s.t = "int")
         THEN Error("excpected type")
         ELSE PyTrue

\* is_valid[object, type]
validate_type(d, s) ==
    IF s.t \in {"dict", "set", "list"}
    THEN Error("invalid schema: type has no meaning, use a instance of this type")
    ELSE IF d.k # s.t
         THEN Error("excpected type")
         ELSE PyTrue

\* the for loop of validate_list, from element i on
list_loop(items, subschema, i) ==
    IF i > Len(items)
    THEN PyTrue
    ELSE LET error == is_valid(items[i], subschema)
         IN  IF Raised(error) \/ ~Truthy(error)
             THEN error
             ELSE list_loop(items, subschema, i + 1)

\* validate_list that goes through every element and keeps the last verdict
validate_list_last_verdict(d, s) ==
    IF Len(s.items) # 1
    THEN Error("invalid schema: list must have one value")
    ELSE IF d.items = <<>>
         THEN PyTrue
         ELSE is_valid(d.items[Len(d.items)], s.items[1])

\* is_valid[list, list]
validate_list(d, s) ==
    IF Len(s.items) # 1
    THEN Error("invalid schema: list must have one value")
    ELSE list_loop(d.items, s.items[1], 1)

\* the for loop of validate_tuple over zip(data, schema), from pair i on;
\* error is `not is_valid(...)`, and a truthy error is returned as it is
tuple_loop(items, subschemas, i) ==
    IF i > Len(items) \/ i > Len(subschemas)
    THEN PyTrue
    ELSE LET r == is_valid(items[i], subschemas[i])
         IN  IF Raised(r)
             THEN r
             ELSE LET error == PyNot(r)
                  IN  IF Truthy(error)
                      THEN error
                      ELSE tuple_loop(items, subschemas, i + 1)

\* is_valid[list, tuple]
validate_tuple(d, s) ==
    IF Len(d.items) # Len(s.items)
    THEN Error("wrong number of arguments")
    ELSE tuple_loop(d.items, s.items, 1)

\* the for loop of validate_dict over schema.items(), from field i on
dict_loop(d, fields, i) ==
    IF i > Len(fields)
    THEN PyTrue
    ELSE LET optional == fields[i].optional
             key == fields[i].key
         IN  IF key \in DictKeys(d)
             THEN LET error == is_valid(DictGet(d, key), fields[i].schema)
                  IN  IF Raised(error) \/ ~Truthy(error)
                      THEN error
                      ELSE dict_loop(d, fields, i + 1)
             ELSE IF ~optional
                  THEN Error("missing required key")
                  ELSE dict_loop(d, fields, i + 1)

\* validate_dict without the check for keys the schema does not declare
validate_dict_no_unknow(d, s) ==
    LET plain == {s.fields[i].key : i \in {j \in 1..Len(s.fields) : ~s.fields[j].optional}}
        required == plain \ DictKeys(d)
    IN  IF required # {}
        THEN Error("missing required keys")
        ELSE dict_loop(d, s.fields, 1)

\* is_valid[dict, dict]
validate_dict(d, s) ==
    LET declared == {s.fields[i].key : i \in 1..Len(s.fields)}
        plain == {s.fields[i].key : i \in {j \in 1..Len(s.fields) : ~s.fields[j].optional}}
        unknow == DictKeys(d) \ declared
        required == plain \ DictKeys(d)
    IN  IF unknow # {}
        THEN Error("unknow keys")
        ELSE IF required # {}
             THEN Error("missing required keys")
             ELSE dict_loop(d, s.fields, 1)

\* is_valid[object, Any]
validate_any(d, s) == PyTrue

\* validate_optional without the try/except around the inner validation
validate_optional_no_except(d, s) ==
    IF d.k = "NoneType"
    THEN PyTrue
    ELSE is_valid(d, s.value)

\* is_valid[object, Optional]
validate_optional(d, s) ==
    IF d.k = "NoneType"
    THEN PyTrue
    ELSE LET r == is_valid(d, s.value)
         IN  IF Raised(r) /\ r.exc = "DispatchError"
             THEN Error("is not a valid")
             ELSE r

\* the for loop of validate_oneofthese, from possibility i on
oneofthese_loop(d, posibilities, i) ==
    IF i > Len(posibilities)
    THEN Error("value must be one of these types")
    ELSE LET r == is_valid(d, posibilities[i])
         IN  IF Raised(r) /\ r.exc = "DispatchError"
             THEN oneofthese_loop(d, posibilities, i + 1)
             ELSE IF Raised(r)
                  THEN r
                  ELSE IF Truthy(r)
                       THEN PyTrue
                       ELSE oneofthese_loop(d, posibilities, i + 1)

\* is_valid[object, OneOfThese]
validate_oneofthese(d, s) == oneofthese_loop(d, s.posibilities, 1)

\* is_valid[object, set]
validate_set(d, s) == validate_oneofthese(d, OneOfThese(s.members))

\* whether len(data) is defined
HasLen(d) == d.k \in {"list", "str", "dict"}
\* len(data)
PyLen(d) ==
    CASE d.k = "list" -> Len(d.items)
      [] d.k = "str" -> Len(d.s)
      [] d.k = "dict" -> Len(d.items)
\* what iterating data yields: the elements of a list, the characters of a
\* str, the keys of a dict
Elements(d) ==
    CASE d.k = "list" -> d.items
      [] d.k = "str" -> [i \in 1..Len(d.s) |-> DStr(<<d.s[i]>>)]
      [] d.k = "dict" -> [i \in 1..Len(d.items) |-> DStr(<<d.items[i][1]>>)]

\* all(is_valid(subdata, subschema) for subdata in data), from element i on
all_loop(elements, subschema, i) ==
    IF i > Len(elements)
    THEN PyTrue
    ELSE LET r == is_valid(elements[i], subschema)
         IN  IF Raised(r)
             THEN r
             ELSE IF ~Truthy(r)
                  THEN PyFalse
                  ELSE all_loop(elements, subschema, i + 1)

\* schema.maximum < len(data) < schema.minimum
RepeatOutOfBounds(s, n) == (~s.inf /\ s.maximum < n) /\ n < s.minimum

\* is_valid[object, Repeat]
validate_repeat(d, s) ==
    IF ~HasLen(d)
    THEN Raise("TypeError")
    ELSE IF RepeatOutOfBounds(s, PyLen(d))
         THEN Error("wrong number of elements")
         ELSE all_loop(Elements(d), s.schema, 1)

\* the rule the multifunction selects for (type(data), type(schema)), or
\* DispatchError when none is registered
is_valid(d, s) ==
    CASE s.v = "type" -> validate_type(d, s)
      [] s.v = "Any" -> validate_any(d, s)
      [] s.v = "Optional" -> validate_optional(d, s)
      [] s.v = "Repeat" -> validate_repeat(d, s)
      [] s.v = "OneOfThese" -> validate_oneofthese(d, s)
      [] s.v = "set" -> validate_set(d, s)
      [] s.v = "dict" /\ d.k = "dict" -> validate_dict(d, s)
      [] s.v = "list" /\ d.k = "list" -> validate_list(d, s)
      [] s.v = "tuple" /\ d.k = "list" -> validate_tuple(d, s)
      [] OTHER -> Raise("DispatchError")

(***************************************************************************)
(* validate_json: json.loads, then is_valid.  A text is a sequence of      *)
(* tokens; json_loads parses one JSON value that spans the whole text.     *)
(***************************************************************************)
Tokens == {"null", "1", "1.0", "\"a\"", "[", "]", ",", "{", "}"}

NoParse == [ok |-> FALSE]
Parsed(value, next) == [ok |-> TRUE, value |-> value, next |-> next]

RECURSIVE parse_value(_, _)
RECURSIVE parse_elements(_, _, _)

\* the elements of an array after "[" or ",", from token i on; acc holds the
\* elements already parsed
parse_elements(toks, i, acc) ==
    LET e == parse_value(toks, i)
    IN  IF ~e.ok \/ e.next > Len(toks)
        THEN NoParse
        ELSE IF toks[e.next] = "]"
             THEN Parsed(DList(Append(acc, e.value)), e.next + 1)
             ELSE IF toks[e.next] = ","
                  THEN parse_elements(toks, e.next + 1, Append(acc, e.value))
                  ELSE NoParse

\* one JSON value starting at token i
parse_value(toks, i) ==
    IF i > Len(toks)
    THEN NoParse
    ELSE CASE toks[i] = "null" -> Parsed(DNone, i + 1)
           [] toks[i] = "1" -> Parsed(DInt(1), i + 1)
           [] toks[i] = "1.0" -> Parsed(DFloat(1), i + 1)
           [] toks[i] = "\"a\"" -> Parsed(DStr(<<"a">>), i + 1)
           [] toks[i] = "[" ->
                IF i + 1 <= Len(toks) /\ toks[i + 1] = "]"
                THEN Parsed(DList(<<>>), i + 2)
                ELSE parse_elements(toks, i + 1, <<>>)
           [] toks[i] = "{" ->
                IF i + 1 <= Len(toks) /\ toks[i + 1] = "}"
                THEN Parsed(DDict(<<>>), i + 2)
                ELSE NoParse
           [] OTHER -> NoParse

\* json.loads(jsonstring): the value, or no parse when it raises
json_loads(toks) ==
    LET p == parse_value(toks, 1)
    IN  IF p.ok /\ p.next = Len(toks) + 1 THEN p ELSE NoParse

validate_json(jsonstring, s) ==
    LET p == json_loads(jsonstring)
    IN  IF ~p.ok
        THEN Error("invalid json")
        ELSE LET r == is_valid(p.value, s)
             IN  IF Raised(r) /\ r.exc = "DispatchError"
                 THEN Error("excpected type")
                 ELSE r

(***************************************************************************)
(* generate: the multifunction and the rules registered for it.  Each      *)
(* operator is the set of outcomes the call can have over the choices of   *)
(* the random source: data values and raised exceptions.                   *)
(***************************************************************************)
\* the bounds of random.randint in generate_type
IntBound == 10000
\* the upper bound of random.randint in generate_list
RepeatBound == 10

IsRaise(g) == "o" \in DOMAIN g

RECURSIVE generate(_)
RECURSIVE generate_each(_)

\* [generate(subschema) for subschema in schemas]: the lists of generated
\* values, or the exception of the first call that raises
generate_each(schemas) ==
    IF schemas = <<>>
    THEN {[items |-> <<>>]}
    ELSE UNION {IF IsRaise(h)
                THEN {h}
                ELSE {IF IsRaise(t) THEN t ELSE [items |-> <<h>> \o t.items]
                      : t \in generate_each(Tail(schemas))}
                : h \in generate(Head(schemas))}

\* generate[type]: for float the drawn number is not returned, and the
\* function ends without a return statement, as for every other type
generate_type(s) ==
    CASE s.t = "int" -> {DInt(-IntBound), DInt(0), DInt(IntBound)}
      [] s.t = "bool" -> {DBool(TRUE), DBool(FALSE)}
      [] OTHER -> {DNone}

\* generate[set]: random.choice indexes its argument, which a set does not
\* support; on an empty set the interpreter may raise IndexError first
generate_set(s) ==
    IF s.members = <<>>
    THEN {Raise("TypeError"), Raise("IndexError")}
    ELSE {Raise("TypeError")}

\* schema * n
Times(q, n) == [i \in 1..(Len(q) * n) |-> q[((i - 1) % Len(q)) + 1]]

\* the values random.randint(0, 10) is taken to return
Draws == 0..(IF MaxDraw < RepeatBound THEN MaxDraw ELSE RepeatBound)

\* generate[list]
generate_list(s) ==
    UNION {{IF IsRaise(g) THEN g ELSE DList(g.items) : g \in generate_each(Times(s.items, n))}
           : n \in Draws}

\* generate_tuple: registered for tuple, then replaced by generate_dict
generate_tuple(s) ==
    {IF IsRaise(g) THEN g ELSE DList(g.items) : g \in generate_each(s.items)}

\* generate[tuple], the rule registered last: schema.items() of a tuple
generate_dict(s) ==
    IF s.v # "dict"
    THEN {Raise("AttributeError")}
    ELSE {IF IsRaise(g)
          THEN g
          ELSE DDict([i \in 1..Len(g.items) |-> <<s.fields[i].key, g.items[i]>>])
          : g \in generate_each([i \in 1..Len(s.fields) |-> s.fields[i].schema])}

\* the rule the multifunction selects for type(schema), or DispatchError
generate(s) ==
    CASE s.v = "type" -> generate_type(s)
      [] s.v = "set" -> generate_set(s)
      [] s.v = "list" -> generate_list(s)
      [] s.v = "tuple" -> generate_dict(s)
      [] OTHER -> {Raise("DispatchError")}

(***************************************************************************)
(* The inputs the operations are applied to.                               *)
(***************************************************************************)
\* longest sequence of alternatives of a OneOfThese or set schema
MaxAlts == 2

SeqsUpTo(S, n) == UNION {[1..m -> S] : m \in 0..n}
NoRepeats(q) == \A i, j \in 1..Len(q) : i # j => q[i] # q[j]

TInt == Type("int")
TFloat == Type("float")

Scalars == {DNone, DBool(TRUE), DInt(1), DFloat(1), DStr(<<"a">>), DStr(<<>>)}
FlatLists == {DList(q) : q \in SeqsUpTo({DNone, DInt(1), DFloat(1)}, MaxLen)}
NestedLists ==
    {DList(q) : q \in SeqsUpTo({DList(<<DInt(1)>>), DList(<<DFloat(1)>>)}, MaxLen) \ {<<>>}}
DictValues == {DInt(1), DNone, DList(<<DFloat(1)>>)}
Dicts ==
    {DDict(q) : q \in {<<>>} \cup {<<<<key, x>>>> : key \in {"a", "b"}, x \in DictValues}
                      \cup {<<<<"a", x>>, <<"b", y>>>> : x \in DictValues, y \in DictValues}}
DataValues == Scalars \cup FlatLists \cup NestedLists \cup Dicts

ScalarMarkers == {"bool", "int", "float", "str", "NoneType"}
TypeSchemas == {Type(t) : t \in ScalarMarkers \cup {"dict", "list", "set"}}
LeafSchemas == TypeSchemas \cup {AnySchema, NoneSchema}
OptionalSchemas ==
    {Optional(s) : s \in {TInt, TFloat, Type("NoneType"), AnySchema, NoneSchema,
                          DictSchema(<<>>), ListSchema(<<TInt>>), TupleSchema(<<TInt>>),
                          ZeroOrMore(TInt), Optional(DictSchema(<<>>))}}
RepeatInner == {TInt, TFloat, Type("str"), DictSchema(<<>>), TupleSchema(<<TInt>>)}
RepeatSchemas ==
    {ZeroOrMore(s) : s \in RepeatInner}
    \cup {Repeat(s, b[1], b[2]) : s \in RepeatInner, b \in {<<0, 1>>, <<1, 2>>, <<2, 2>>}}
Alternatives == {TInt, TFloat, ZeroOrMore(TInt), DictSchema(<<>>)}
OneOfTheseSchemas == {OneOfThese(q) : q \in SeqsUpTo(Alternatives, MaxAlts)}
SetSchemas == {SetSchema(q) : q \in {r \in SeqsUpTo(Alternatives, MaxAlts) : NoRepeats(r)}}
ListItem ==
    {TInt, TFloat, NoneSchema, DictSchema(<<>>), TupleSchema(<<TInt>>), ZeroOrMore(TInt),
     ListSchema(<<TFloat>>), SetSchema(<<TInt, TFloat>>)}
ListSchemas ==
    {ListSchema(<<>>), ListSchema(<<TInt, TInt>>), ListSchema(<<TInt, TFloat>>)}
    \cup {ListSchema(<<s>>) : s \in ListItem}
TupleSchemas ==
    {TupleSchema(q) : q \in SeqsUpTo({TInt, TFloat, Optional(TInt)}, MaxLen)}
    \cup {TupleSchema(<<s>>) : s \in {TupleSchema(<<TInt>>), ListSchema(<<TInt>>),
                                      DictSchema(<<>>), ZeroOrMore(TInt)}}
FieldSchemas == {TInt, Optional(TInt), ListSchema(<<TInt>>), TupleSchema(<<TInt>>)}
FieldsOf(key) == {Field(key, o, s) : o \in BOOLEAN, s \in FieldSchemas}
DictSchemas ==
    {DictSchema(q) : q \in {<<>>} \cup {<<f>> : f \in FieldsOf("a") \cup FieldsOf("b")}
                           \cup {<<f, g>> : f \in FieldsOf("a"), g \in FieldsOf("b")}
                           \cup {<<Field("b", FALSE, TInt), Field("a", TRUE, TInt)>>,
                                 <<Field("a", FALSE, TInt), Field("a", TRUE, TFloat)>>}}
Schemas ==
    LeafSchemas \cup OptionalSchemas \cup RepeatSchemas \cup OneOfTheseSchemas
    \cup SetSchemas \cup ListSchemas \cup TupleSchemas \cup DictSchemas

Texts == SeqsUpTo(Tokens, MaxTokens)
JsonSchemas ==
    {TInt, TFloat, Type("NoneType"), AnySchema, NoneSchema, ZeroOrMore(TInt),
     ListSchema(<<TInt>>), ListSchema(<<DictSchema(<<>>)>>), TupleSchema(<<TInt, TFloat>>),
     DictSchema(<<>>), Optional(TInt), OneOfThese(<<ZeroOrMore(TInt), TInt>>)}

GenLeaf == {Type(t) : t \in {"bool", "int", "float", "NoneType"}}
GenSchemas ==
    GenLeaf
    \cup {SetSchema(<<>>), SetSchema(<<TInt>>), SetSchema(<<TInt, Type("bool")>>)}
    \cup {ListSchema(<<s>>) : s \in GenLeaf \cup {ListSchema(<<Type("bool")>>)}}
    \cup {TupleSchema(q) : q \in SeqsUpTo({TInt, Type("bool")}, 2)}
    \cup {DictSchema(<<>>), DictSchema(<<Field("a", FALSE, TInt)>>),
          DictSchema(<<Field("a", FALSE, TInt), Field("b", TRUE, Type("bool"))>>)}
    \cup {Optional(TInt), ZeroOrMore(TInt), OneOfThese(<<TInt>>), AnySchema}

(***************************************************************************)
(* The state machine: one call per behaviour, and the round trip of a      *)
(* generated value through is_valid.                                       *)
(***************************************************************************)
Unset == [k |-> "unset"]
NoSchema == [v |-> "unset"]
NoResult == [o |-> "unset"]

Init ==
    /\ op = "none"
    /\ data = Unset
    /\ text = <<>>
    /\ schema = NoSchema
    /\ result = NoResult
    /\ invoked = FALSE

\* is_valid(d, s)
IsValid ==
    /\ op = "none"
    /\ \E d \in DataValues, s \in Schemas :
          /\ data' = d
          /\ schema' = s
          /\ result' = is_valid(d, s)
    /\ op' = "is_valid"
    /\ invoked' = TRUE
    /\ UNCHANGED text

\* validate_json(t, s)
ValidateJson ==
    /\ op = "none"
    /\ \E t \in Texts, s \in JsonSchemas :
          /\ text' = t
          /\ schema' = s
          /\ result' = validate_json(t, s)
          /\ invoked' = json_loads(t).ok
          /\ data' = IF json_loads(t).ok THEN json_loads(t).value ELSE Unset
    /\ op' = "validate_json"

\* generate(s): data holds the generated value, result the raised exception
Generate ==
    /\ op = "none"
    /\ \E s \in GenSchemas :
          /\ schema' = s
          /\ \E g \in generate(s) :
                /\ data' = IF IsRaise(g) THEN Unset ELSE g
                /\ result' = IF IsRaise(g) THEN g ELSE NoResult
    /\ op' = "generate"
    /\ UNCHANGED <<text, invoked>>

\* is_valid(generate(s), s)
ValidateGenerated ==
    /\ op = "generate"
    /\ data # Unset
    /\ result' = is_valid(data, schema)
    /\ op' = "roundtrip"
    /\ invoked' = TRUE
    /\ UNCHANGED <<data, text, schema>>

Next == IsValid \/ ValidateJson \/ Generate \/ ValidateGenerated

Spec == Init /\ [][Next]_vars

(***************************************************************************)
(* Properties.  Valid means that the call returns a truthy value; a call   *)
(* that returns a falsy value or raises is not Valid.                      *)
(***************************************************************************)
Valid(r) == ~Raised(r) /\ Truthy(r)

\* C1: for list data and a tuple schema, is_valid is Valid if and only if
\* the lengths are equal and every element is Valid against the schema at
\* its position.
C1_TupleValidIffPositional ==
    (op = "is_valid" /\ data.k = "list" /\ schema.v = "tuple") =>
        (Valid(result) <=>
            /\ Len(data.items) = Len(schema.items)
            /\ \A i \in 1..Len(data.items) : Valid(is_valid(data.items[i], schema.items[i])))

\* C2: for dict data and a dict schema, is_valid is Valid if and only if
\* every key of the data is declared (plain or Optional), every plain key of
\* the schema is in the data, and the value of every declared key present in
\* the data is Valid against the schema of that field.
C2_DictValidIffKeysAndValues ==
    (op = "is_valid" /\ data.k = "dict" /\ schema.v = "dict") =>
        (Valid(result) <=>
            /\ \A key \in DictKeys(data) :
                  \E i \in 1..Len(schema.fields) : schema.fields[i].key = key
            /\ \A i \in 1..Len(schema.fields) :
                  ~schema.fields[i].optional => schema.fields[i].key \in DictKeys(data)
            /\ \A i \in 1..Len(schema.fields) :
                  schema.fields[i].key \in DictKeys(data) =>
                      Valid(is_valid(DictGet(data, schema.fields[i].key),
                                     schema.fields[i].schema)))

\* C2 witness: the Optional key b is absent, the plain key a is present and
\* the data is accepted.
C2_Witness ==
    /\ op = "is_valid"
    /\ data = DDict(<<<<"a", DInt(1)>>>>)
    /\ schema = DictSchema(<<Field("a", FALSE, TInt), Field("b", TRUE, TInt)>>)
    /\ result = PyTrue

\* C3: for list data and a Repeat schema, is_valid is Valid if and only if
\* minimum <= len(data) <= maximum and every element is Valid against the
\* inner schema (the claim restricted to data that is a list).
C3_RepeatValidIffLengthAndElements ==
    (op = "is_valid" /\ data.k = "list" /\ schema.v = "Repeat") =>
        (Valid(result) <=>
            /\ schema.minimum <= Len(data.items)
            /\ schema.inf \/ Len(data.items) <= schema.maximum
            /\ \A i \in 1..Len(data.items) : Valid(is_valid(data.items[i], schema.schema)))

\* C4: validate_json never raises; a text that does not decode gives
\* Error('invalid json') without a call of is_valid; otherwise the result is
\* the outcome of is_valid, with a dispatch miss turned into an Error.
C4_ValidateJsonNeverRaises ==
    op = "validate_json" =>
        /\ ~Raised(result)
        /\ ~json_loads(text).ok => (result = Error("invalid json") /\ ~invoked)
        /\ json_loads(text).ok =>
              LET r == is_valid(json_loads(text).value, schema)
              IN  IF r = Raise("DispatchError") THEN result.o = "Error" ELSE result = r

\* C5: is_valid(None, Optional(S)) is Valid; for data other than None,
\* is_valid(v, Optional(S)) is Valid exactly when is_valid(v, S) is, returns
\* what is_valid(v, S) returns when that returns, and returns an Error when
\* is_valid(v, S) raises DispatchError.
C5_OptionalAsInner ==
    (op = "is_valid" /\ schema.v = "Optional") =>
        IF data = DNone
        THEN result = PyTrue
        ELSE LET r == is_valid(data, schema.value)
             IN  /\ Valid(result) <=> Valid(r)
                 /\ ~Raised(r) => result = r
                 /\ r = Raise("DispatchError") => result.o = "Error"

\* C5 witness: no rule is registered for an int against a dict schema, and
\* the Optional around it reports an Error.
C5_Witness ==
    /\ op = "is_valid"
    /\ data = DInt(1)
    /\ schema = Optional(DictSchema(<<>>))
    /\ is_valid(data, schema.value) = Raise("DispatchError")
    /\ result.o = "Error"

\* C6: against a scalar type marker, is_valid is Valid if and only if the
\* type of the data is exactly the marker.
C6_ScalarExactType ==
    (op = "is_valid" /\ schema.v = "type" /\ schema.t \in ScalarMarkers) =>
        (Valid(result) <=> data.k = schema.t)

\* C6 witness: a bool against int is rejected.
C6_Witness ==
    /\ op = "is_valid"
    /\ data = DBool(TRUE)
    /\ schema = TInt
    /\ result.o = "Error"

\* the alternatives of a OneOfThese or set schema
AlternativesOf(s) == IF s.v = "set" THEN s.members ELSE s.posibilities
SameMembers(q, r) == {q[i] : i \in 1..Len(q)} = {r[i] : i \in 1..Len(r)}

\* C7: OneOfThese(*A) and the set schema with the same members, in whatever
\* order the set iterates, give the same verdict, which is Valid if and only
\* if some alternative is Valid for the data; the alternation does not raise
\* DispatchError.
C7_AlternationValidIffSomeAlternative ==
    (op = "is_valid" /\ schema.v \in {"OneOfThese", "set"}) =>
        LET alts == AlternativesOf(schema)
        IN  /\ Valid(result) <=> \E i \in 1..Len(alts) : Valid(is_valid(data, alts[i]))
            /\ result # Raise("DispatchError")
            /\ \A q \in SeqsUpTo(Alternatives, MaxAlts) :
                  SameMembers(q, alts) =>
                      IF schema.v = "set"
                      THEN Valid(is_valid(data, OneOfThese(q))) <=> Valid(result)
                      ELSE NoRepeats(q) =>
                              (Valid(is_valid(data, SetSchema(q))) <=> Valid(result))

\* C8: for list data and a list schema with one member S, is_valid is Valid
\* if and only if every element is Valid against S, the empty list is Valid,
\* and the call returns when no element raises; a list schema with no or
\* several members gives an Error.
C8_ListValidIffEveryElement ==
    (op = "is_valid" /\ data.k = "list" /\ schema.v = "list") =>
        IF Len(schema.items) = 1
        THEN /\ Valid(result) <=>
                    \A i \in 1..Len(data.items) : Valid(is_valid(data.items[i], schema.items[1]))
             /\ data.items = <<>> => result = PyTrue
             /\ (\A i \in 1..Len(data.items) : ~Raised(is_valid(data.items[i], schema.items[1])))
                    => ~Raised(result)
        ELSE result.o = "Error"

\* C8 witness: the first element fails, the element after it passes, and the
\* list is rejected.
C8_Witness ==
    /\ op = "is_valid"
    /\ data = DList(<<DFloat(1), DInt(1)>>)
    /\ schema = ListSchema(<<TInt>>)
    /\ result.o = "Error"

\* whether a schema is built only from the variants generate has a rule
\* for: bool, int, float, NoneType, set, one-element list, tuple, dict
RECURSIVE HasGenerationRule(_)
HasGenerationRule(s) ==
    CASE s.v = "type" -> s.t \in {"bool", "int", "float", "NoneType"}
      [] s.v = "set" ->
            s.members # <<>> /\ \A i \in 1..Len(s.members) : HasGenerationRule(s.members[i])
      [] s.v = "list" -> Len(s.items) = 1 /\ HasGenerationRule(s.items[1])
      [] s.v = "tuple" -> \A i \in 1..Len(s.items) : HasGenerationRule(s.items[i])
      [] s.v = "dict" -> \A i \in 1..Len(s.fields) : HasGenerationRule(s.fields[i].schema)
      [] OTHER -> FALSE

\* C9: for a schema built from the variants with a generation rule,
\* generate returns a value, and every value it returns is Valid against
\* the schema.
C9_GenerateRoundTrip ==
    HasGenerationRule(schema) =>
        /\ op = "generate" => ~Raised(result)
        /\ op = "roundtrip" => Valid(result)

\* C10: what is_valid returns is the truthy Valid value or an Error
\* instance with a reason.
C10_ReturnsValidOrError ==
    (op = "is_valid" /\ ~Raised(result)) =>
        \/ result = PyTrue
        \/ result.o = "Error" /\ result.erro # ""

====
